---------------------------- MODULE Spec2Model ----------------------------
(***************************************************************************)
(* Model of mukundan1989/cointest:                                         *)
(*   lib/adf_test.py       the pure-Python unit-root (ADF) engine          *)
(*   api/adf.py            the two-symbol endpoint built on that engine    *)
(*   api/adf-test.py       the two-symbol endpoint built on adfuller       *)
(*   api/calculate_adf.py  the rolling pairs pipeline                      *)
(*                                                                         *)
(* Real numbers are exact rationals <<num, den>> (den > 0, lowest terms);  *)
(* float('inf') is <<1, 0>> and float('nan') is <<0, 0>>.  A square root   *)
(* is carried as a sign and the rational it is the root of.                *)
(***************************************************************************)
EXTENDS Integers, Sequences, FiniteSets, TLC

VARIABLES
    call,       \* lib/adf_test.py: the function called and its arguments
    ret,        \* lib/adf_test.py: what the call returned or raised
    endpoint,   \* api/adf.py or api/adf-test.py: which handler serves the event
    event,      \* the request, and what each CSV URL serves
    hpc,        \* the handler's position
    prices,     \* tcs_prices / hcl_prices once fetched (<<>> is None)
    lib,        \* what adfuller returned or raised, per symbol
    results,    \* the handler's results dict
    response,   \* the response returned
    post,       \* api/calculate_adf.py: the POST body
    rpc,        \* the rolling pipeline's position
    loaded,     \* the two sorted (dates, prices) series
    aligned_data,        \* the aligned records
    ridx,                \* the loop variable i (0-based, as in the code)
    roll_results,        \* the records appended so far
    last_adf_statistic,  \* the pipeline-level summary
    roll_ret,            \* what run_ols_and_adf_arch_api returned
    events,              \* what each iteration of the loop did, in order
    post_response        \* what do_POST sent

libVars == <<call, ret>>
handlerVars == <<endpoint, event, hpc, prices, lib, results, response>>
rollVars == <<post, rpc, loaded, aligned_data, ridx, roll_results,
              last_adf_statistic, roll_ret, events, post_response>>
vars == <<call, ret, endpoint, event, hpc, prices, lib, results, response,
          post, rpc, loaded, aligned_data, ridx, roll_results,
          last_adf_statistic, roll_ret, events, post_response>>

-----------------------------------------------------------------------------
(* Exact arithmetic *)

Abs(a) == IF a < 0 THEN -a ELSE a

Sgn(a) == IF a < 0 THEN -1 ELSE IF a > 0 THEN 1 ELSE 0

RECURSIVE GCD(_, _)
GCD(a, b) == IF b = 0 THEN a ELSE GCD(b, a % b)

\* n/d with the common factor g taken out and the sign on the numerator
Reduced(n, d, g) ==
    IF d < 0 THEN <<(-n) \div g, (-d) \div g>> ELSE <<n \div g, d \div g>>

Rat(n, d) == Reduced(n, d, GCD(Abs(n), Abs(d)))

Zero == <<0, 1>>
Inf == <<1, 0>>
NaN == <<0, 0>>

R(i) == <<i, 1>>

\* a + b over the common denominator l
AddOver(a, b, l) == Rat(a[1] * (l \div a[2]) + b[1] * (l \div b[2]), l)

RAdd(a, b) == AddOver(a, b, (a[2] \div GCD(a[2], b[2])) * b[2])

RNeg(a) == <<-a[1], a[2]>>

RSub(a, b) == RAdd(a, RNeg(b))

\* a * b with the cross factors g1, g2 taken out before multiplying
MulReduced(a, b, g1, g2) ==
    Rat((a[1] \div g1) * (b[1] \div g2), (a[2] \div g2) * (b[2] \div g1))

RMul(a, b) == MulReduced(a, b, GCD(Abs(a[1]), b[2]), GCD(Abs(b[1]), a[2]))

\* a / b for b # 0
RDiv(a, b) == RMul(a, Rat(b[2], b[1]))

RSq(a) == RMul(a, a)

RLess(a, b) == RSub(a, b)[1] < 0

RECURSIVE RSumRange(_, _, _)
\* s[lo] + ... + s[hi], split in halves to keep the evaluation shallow
RSumRange(s, lo, hi) ==
    IF lo > hi THEN Zero
    ELSE IF lo = hi THEN s[lo]
    ELSE RAdd(RSumRange(s, lo, (lo + hi) \div 2),
              RSumRange(s, (lo + hi) \div 2 + 1, hi))

\* sum(...) over a sequence of rationals
RSum(s) == RSumRange(s, 1, Len(s))

\* zip(x, y): pairs up to the shorter length
ZipLen(x, y) == IF Len(x) < Len(y) THEN Len(x) ELSE Len(y)

-----------------------------------------------------------------------------
(* lib/adf_test.py *)

mean(values) ==
    IF values = <<>> THEN Zero ELSE RDiv(RSum(values), R(Len(values)))

\* sum((x - m) ** 2 for x in values)
SumSqDev(values, m) == RSum([i \in 1..Len(values) |-> RSq(RSub(values[i], m))])

variance(values) ==
    IF Len(values) < 2 THEN Zero ELSE SumSqDev(values, mean(values))

\* sum((xi - xm) * (yi - ym) for xi, yi in zip(x, y))
SumCrossDev(x, y, xm, ym) ==
    RSum([i \in 1..Len(x) |-> RMul(RSub(x[i], xm), RSub(y[i], ym))])

covariance(x, y) ==
    IF Len(x) # Len(y) \/ x = <<>> THEN Zero
    ELSE SumCrossDev(x, y, mean(x), mean(y))

\* [yi - ym for yi in y]
Deviations(y, ym) == [i \in 1..Len(y) |-> RSub(y[i], ym)]

\* OlsDegenerate returning alpha = mean(y), as its comment says
OlsDegenerateMeanAlpha(x, y) ==
    [alpha |-> mean(y), beta |-> Zero, residuals |-> Deviations(y, mean(y))]

\* the return statement of the degenerate branch: return 0, 0, [...]
OlsDegenerate(x, y) ==
    [alpha |-> Zero, beta |-> Zero, residuals |-> Deviations(y, mean(y))]

\* residuals = [yi - (alpha + beta * xi) for xi, yi in zip(x, y)], returned
\* with alpha and beta
OlsReturn(x, y, alpha, beta) ==
    [alpha |-> alpha, beta |-> beta,
     residuals |-> [i \in 1..ZipLen(x, y) |->
                       RSub(y[i], RAdd(alpha, RMul(beta, x[i])))]]

\* alpha = mean(y) - beta * mean(x)
OlsIntercept(x, y, beta) ==
    OlsReturn(x, y, RSub(mean(y), RMul(beta, mean(x))), beta)

ols_regression(x, y) ==
    IF Len(x) < 2 \/ variance(x) = Zero
    THEN OlsDegenerate(x, y)
    ELSE OlsIntercept(x, y, RDiv(covariance(x, y), variance(x)))

\* se2 = sum(r**2 for r in residuals) / (n - 2): Python raises
\* ZeroDivisionError when n - 2 is 0
ResidualVariance(n, residuals) ==
    IF n - 2 = 0
    THEN [exc |-> "ZeroDivisionError", val |-> NaN]
    ELSE [exc |-> "none",
          val |-> RDiv(RSum([i \in 1..Len(residuals) |-> RSq(residuals[i])]),
                       R(n - 2))]

\* The square of the value standard_error returns (the value itself is
\* (se2 / sx) ** 0.5, not rational in general); Inf stands for float('inf').
\* the last three statements of standard_error, given sx and se2
StandardErrorOf(sx, se2) ==
    IF se2.exc # "none" THEN [exc |-> se2.exc, sq |-> NaN]
    ELSE [exc |-> "none",
          sq |-> RDiv(IF RLess(se2.val, Zero) THEN Zero ELSE se2.val, sx)]

\* standard_error from the sx == 0 test on
StandardErrorFrom(n, sx, residuals) ==
    IF sx = Zero THEN [exc |-> "none", sq |-> Inf]
    ELSE StandardErrorOf(sx, ResidualVariance(n, residuals))

standard_error(x, residuals) ==
    IF Len(x) < 2 THEN [exc |-> "none", sq |-> Inf]
    ELSE StandardErrorFrom(Len(x), SumSqDev(x, mean(x)), residuals)

Dec2(h) == Rat(h, 100)

CritRow(a, b, c) == ("1%" :> Dec2(a)) @@ ("5%" :> Dec2(b)) @@ ("10%" :> Dec2(c))

get_critical_values(n) ==
    IF n <= 25 THEN CritRow(-375, -300, -263)
    ELSE IF n <= 50 THEN CritRow(-358, -293, -260)
    ELSE IF n <= 100 THEN CritRow(-350, -289, -258)
    ELSE CritRow(-346, -288, -257)

\* round(v, 4) of a rational, by long division, ties to even; inf stays inf
RoundDigits == 4

RECURSIVE Pow10(_)
Pow10(k) == IF k = 0 THEN 1 ELSE 10 * Pow10(k - 1)

RECURSIVE LongDiv(_, _, _, _)
\* <<q, r>>: the first k decimal digits of r0/d (0 <= r0 < d) as an integer q,
\* and the remainder left
LongDiv(r0, d, k, acc) ==
    IF k = 0 THEN <<acc, r0>>
    ELSE LongDiv((r0 * 10) % d, d, k - 1, acc * 10 + ((r0 * 10) \div d))

\* The rounded value from the integer part ip and the digits and remainder
\* qr of the long division of |v|
RoundFrom(v, nd, ip, qr) ==
    Rat(Sgn(v[1]) * (ip * Pow10(nd) + qr[1]
                     + (IF \/ 2 * qr[2] > v[2]
                           \/ 2 * qr[2] = v[2] /\ qr[1] % 2 = 1
                        THEN 1 ELSE 0)),
        Pow10(nd))

round(v, nd) ==
    IF v[2] = 0 THEN v
    ELSE RoundFrom(v, nd, Abs(v[1]) \div v[2],
                   LongDiv(Abs(v[1]) % v[2], v[2], nd, 0))

\* t_stat as sign * sqrt(sq): beta / se with se = sqrt(se_sq), and the
\* se == 0 sentinel branch
TStat(beta, se_sq) ==
    IF se_sq = Zero
    THEN IF beta # Zero THEN [sign |-> 1, sq |-> Inf] ELSE [sign |-> 0, sq |-> Zero]
    ELSE IF se_sq = Inf THEN [sign |-> 0, sq |-> Zero]
    ELSE [sign |-> Sgn(beta[1]), sq |-> RDiv(RSq(beta), se_sq)]

Raise(kind, msg) == [kind |-> kind, msg |-> msg]

Return(value) == [kind |-> "return", value |-> value]

\* AdfValidate with the length threshold off by one
AdfValidateShort(n, lags) ==
    IF n < 19 THEN "Series too short for ADF test (minimum 20 data points recommended)."
    ELSE IF lags < 0 THEN "Lags cannot be negative."
    ELSE IF lags >= n - 1 THEN "Lags must be less than series length - 1."
    ELSE "none"

\* The validation block at the head of adf_test; "none" when it passes
AdfValidate(n, lags) ==
    IF n < 20 THEN "Series too short for ADF test (minimum 20 data points recommended)."
    ELSE IF lags < 0 THEN "Lags cannot be negative."
    ELSE IF lags >= n - 1 THEN "Lags must be less than series length - 1."
    ELSE "none"

\* series[a..b] of a sequence (1-based, inclusive)
Slice(s, a, b) == [i \in 1..(IF b >= a THEN b - a + 1 ELSE 0) |-> s[a + i - 1]]

\* AdfResult with a stationarity flag added to the dict
AdfResultFlagged(t_stat, alpha, beta, lags, crit, n) ==
    [t_stat |-> t_stat,
     alpha |-> round(alpha, RoundDigits),
     beta |-> round(beta, RoundDigits),
     lag_used |-> lags,
     critical_values |-> crit,
     series_length |-> n,
     isStationary |-> t_stat.sign < 0 /\ ~RLess(t_stat.sq, RSq(crit["5%"]))]

\* the dict adf_test returns
AdfResult(t_stat, alpha, beta, lags, crit, n) ==
    [t_stat |-> t_stat,
     alpha |-> round(alpha, RoundDigits),
     beta |-> round(beta, RoundDigits),
     lag_used |-> lags,
     critical_values |-> crit,
     series_length |-> n]

\* CritLength taking the length left after the lag truncation
CritLengthTruncated(n, x) == Len(x)

\* crit = get_critical_values(n): the length the table is looked up with
CritLength(n, x) == n

\* adf_test from the standard error on: the t statistic and the result
AdfFinish(x, fit, se, lags, n) ==
    IF se.exc # "none" THEN Raise(se.exc, "float division by zero")
    ELSE Return(AdfResult(TStat(fit.beta, se.sq), fit.alpha, fit.beta,
                          lags, get_critical_values(CritLength(n, x)), n))

\* se = standard_error(x, residuals)
AdfStandardError(x, fit, lags, n) ==
    AdfFinish(x, fit, standard_error(x, fit.residuals), lags, n)

\* adf_test from the regression inputs on: the len(x) < 2 guard and the fit
AdfRegress(x, y, lags, n) ==
    IF Len(x) < 2
    THEN Raise("ValueError",
               "Not enough data points for regression after differencing and lags.")
    ELSE AdfStandardError(x, ols_regression(x, y), lags, n)

\* adf_test from the differences on: the truncation by lags
AdfTruncate(diff, y_lag, lags, n) ==
    IF lags > 0
    THEN IF Len(diff) <= lags
         THEN Raise("ValueError",
                    "Not enough data points after differencing for specified lags.")
         ELSE AdfRegress(Slice(y_lag, lags + 1, Len(y_lag)),
                         Slice(diff, lags + 1, Len(diff)), lags, n)
    ELSE AdfRegress(y_lag, diff, lags, n)

\* adf_test once the arguments are validated: diff and y_lag
AdfDifference(series, lags, n) ==
    AdfTruncate([i \in 1..(n - 1) |-> RSub(series[i + 1], series[i])],
                Slice(series, 1, n - 1), lags, n)

\* the raise of the validation block, or the rest of adf_test
AdfValidated(series, lags, invalid) ==
    IF invalid # "none" THEN Raise("ValueError", invalid)
    ELSE AdfDifference(series, lags, Len(series))

adf_test(series, lags) ==
    AdfValidated(series, lags, AdfValidate(Len(series), lags))

-----------------------------------------------------------------------------
(* Inputs of the library calls *)

MaxN == 101        \* longest series handed to adf_test
MaxLen == 3        \* longest x and y handed to ols_regression
MaxVal == 2        \* values of x and y are 0..MaxVal

Shapes == {"flat", "ramp", "alt", "saw", "spike"}

\* A series of length n of the named shape
Series(shape, n) ==
    [i \in 1..n |->
        R(CASE shape = "flat" -> 1
            [] shape = "ramp" -> i
            [] shape = "alt" -> 1 + (i % 2)
            [] shape = "saw" -> i % 3
            [] shape = "spike" -> IF i = n THEN 2 ELSE 1
            [] shape = "kink" -> IF i = 1 THEN 3 ELSE i)]

LagChoices(n) == {-1, 0, 1, 2, n - 3, n - 2, n - 1, n}

SeqsUpTo(S, k) == UNION {[1..m -> S] : m \in 0..k}

\* The handlers at rest: no request is being served
HandlerIdle ==
    /\ endpoint = "none"
    /\ event = [body |-> "none"]
    /\ hpc = "idle"
    /\ prices = <<>>
    /\ lib = <<>>
    /\ results = <<>>
    /\ response = [statusCode |-> 0]

\* The rolling pipeline at rest: no POST is being served
RollIdle ==
    /\ post = [window |-> 0]
    /\ rpc = "idle"
    /\ loaded = <<>>
    /\ aligned_data = <<>>
    /\ ridx = 0
    /\ roll_results = <<>>
    /\ last_adf_statistic = <<>>
    /\ roll_ret = [kind |-> "pending"]
    /\ events = <<>>
    /\ post_response = [statusCode |-> 0]

Init ==
    /\ HandlerIdle
    /\ RollIdle
    /\ ret = [kind |-> "pending"]
    /\ \/ \E n \in 0..MaxN, shape \in Shapes :
            \E lags \in LagChoices(n) :
                call = [fn |-> "adf_test", shape |-> shape, n |-> n, lags |-> lags]
       \/ \E x, y \in SeqsUpTo(0..MaxVal, MaxLen) :
            call = [fn |-> "ols_regression", x |-> x, y |-> y]

ToReal(s) == [i \in 1..Len(s) |-> R(s[i])]

CallAdfTest ==
    /\ call.fn = "adf_test"
    /\ ret.kind = "pending"
    /\ ret' = adf_test(Series(call.shape, call.n), call.lags)
    /\ UNCHANGED <<call, handlerVars, rollVars>>

CallOlsRegression ==
    /\ call.fn = "ols_regression"
    /\ ret.kind = "pending"
    /\ ret' = Return(ols_regression(ToReal(call.x), ToReal(call.y)))
    /\ UNCHANGED <<call, handlerVars, rollVars>>

Next == CallAdfTest \/ CallOlsRegression

Spec == Init /\ [][Next]_vars

-----------------------------------------------------------------------------
(* Claims on lib/adf_test.py, checked under Spec *)

AdfCalled == call.fn = "adf_test" /\ ret.kind # "pending"

OlsCalled == call.fn = "ols_regression" /\ ret.kind # "pending"

\* C1: adf_test raises ValueError, and returns nothing, whenever the series
\* has fewer than 20 points, or lags < 0, or lags >= n - 1, whatever the
\* other argument is.
C1_ValidationRejects ==
    (AdfCalled /\ (call.n < 20 \/ call.lags < 0 \/ call.lags >= call.n - 1))
        => ret.kind = "ValueError"

\* C1 witness: each of the three rejections has happened with the other
\* argument acceptable (here: a long enough series with lags = n - 1).
C1_Witness ==
    /\ AdfCalled
    /\ call.n >= 20
    /\ call.lags = call.n - 1
    /\ ret.kind = "ValueError"

AllIdentical(x) == \A i \in 1..Len(x) : x[i] = x[1]

\* C2: for a regressor whose values are all identical (or with fewer than 2
\* points) ols_regression returns beta = 0, alpha = mean(y) and residuals
\* y_i - mean(y).
C2_DegenerateFit ==
    (/\ OlsCalled
     /\ Len(call.x) = Len(call.y)
     /\ (Len(call.x) < 2 \/ AllIdentical(call.x)))
        => /\ ret.kind = "return"
           /\ ret.value.beta = Zero
           /\ ret.value.alpha = mean(ToReal(call.y))
           /\ ret.value.residuals =
                 [i \in 1..Len(call.y) |->
                     RSub(R(call.y[i]), mean(ToReal(call.y)))]

\* The documented table, keyed by the original series length
DocumentedCrit(n) ==
    IF n <= 25 THEN ("1%" :> Rat(-375, 100)) @@ ("5%" :> Rat(-300, 100)) @@ ("10%" :> Rat(-263, 100))
    ELSE IF n <= 50 THEN ("1%" :> Rat(-358, 100)) @@ ("5%" :> Rat(-293, 100)) @@ ("10%" :> Rat(-260, 100))
    ELSE IF n <= 100 THEN ("1%" :> Rat(-350, 100)) @@ ("5%" :> Rat(-289, 100)) @@ ("10%" :> Rat(-258, 100))
    ELSE ("1%" :> Rat(-346, 100)) @@ ("5%" :> Rat(-288, 100)) @@ ("10%" :> Rat(-257, 100))

\* C10: the critical values adf_test returns are those of the bucket of the
\* ORIGINAL series length n, for every valid lags.
C10_CritByOriginalLength ==
    (AdfCalled /\ ret.kind = "return")
        => ret.value.critical_values = DocumentedCrit(call.n)

\* C10 witness: a result for n = 26 whose truncated regression has 23 points,
\* so the original and the truncated length fall in different buckets.
C10_Witness ==
    /\ AdfCalled
    /\ ret.kind = "return"
    /\ call.n = 26
    /\ call.lags = 2
    /\ ret.value.critical_values["5%"] = Rat(-293, 100)

\* The regression points the truncation by lags leaves: len(diff) - lags
RegressionPoints(n, lags) == n - 1 - lags

\* C11: for every series with n >= 20 and every lags with 0 <= lags < n - 1
\* whose truncation leaves at least 2 regression points (exactly 2, at
\* lags = n - 3, included), adf_test returns a result: the standard error and
\* the t-statistic never fail with a division error; the only failure
\* adf_test can produce is the validation ValueError.
C11_NoDivisionFailure ==
    /\ AdfCalled => ret.kind \in {"return", "ValueError"}
    /\ (AdfCalled /\ call.n >= 20 /\ call.lags >= 0 /\ call.lags < call.n - 1
           /\ RegressionPoints(call.n, call.lags) >= 2)
          => ret.kind = "return"

-----------------------------------------------------------------------------
(* api/adf.py and api/adf-test.py: the two-symbol endpoints *)

HMaxN == 21        \* longest series a CSV URL serves

HShapes == {"ramp", "saw"}

HLengths == {0} \cup (19..HMaxN)

HLags == {-1, 0, 1, HMaxN} \cup {n - 3 : n \in 19..HMaxN}

Symbols == {"tcs", "hcltech"}

\* What a CSV URL serves: nothing (the request fails) or a CSV body
Unreachable == [status |-> "unreachable", shape |-> "ramp", n |-> 0, junk |-> FALSE]

Served ==
    [status : {"ok"}, shape : HShapes, n : HLengths, junk : BOOLEAN]

Contents == {Unreachable} \cup Served

\* The rows of the CSV body: Date, Symbol, Price; a junk body also holds a
\* two-column row and a row whose price is not a number
CsvRows(c) ==
    LET good == [i \in 1..c.n |->
                    [cols |-> 3, numeric |-> TRUE, v |-> Series(c.shape, c.n)[i]]]
        bad == << [cols |-> 2, numeric |-> FALSE, v |-> Zero],
                  [cols |-> 3, numeric |-> FALSE, v |-> Zero] >>
    IN  IF c.junk THEN bad \o good ELSE good

\* None, the return value of a failed fetch
None == <<>>

\* fetch_prices_from_csv_url / fetch_csv_data_no_pandas: the prices of the
\* rows with more than two columns and a numeric third column; None when the
\* request fails or no row is left
fetch_prices_from_csv_url(c) ==
    IF c.status # "ok" THEN None
    ELSE LET kept == SelectSeq(CsvRows(c), LAMBDA r : r.cols > 2 /\ r.numeric)
         IN  [i \in 1..Len(kept) |-> kept[i].v]

ErrorEntry(msg) == [error |-> msg]

Response(code, body) == [statusCode |-> code, body |-> body]

StockName(sym) == IF sym = "tcs" THEN "TCS.NS" ELSE "HCLTECH.NS"

\* One try/except block around adf_test in api/adf.py
AdfEntryOf(r, sym) ==
    IF r.kind = "return" THEN r.value
    ELSE IF r.kind = "ValueError" THEN ErrorEntry(r.msg)
    ELSE ErrorEntry("ADF test failed for " \o StockName(sym) \o ": " \o r.msg)

AdfEntry(series, lags, sym) == AdfEntryOf(adf_test(series, lags), sym)

\* adfuller is a library call: it raises, or returns a statistic, a p-value
\* and critical values (numbers in units of 1e-5)
AdfullerStats == {-345678, -286004, -100000}
AdfullerPValues == {1234, 5000, 5004, 60000}
AdfullerCrit == ("1%" :> -343000) @@ ("5%" :> -286004) @@ ("10%" :> -257000)

AdfullerOutcomes ==
    {[kind |-> "raise", stat |-> 0, pvalue |-> 0]} \cup
    [kind : {"return"}, stat : AdfullerStats, pvalue : AdfullerPValues]

\* f"{v:.4f}": v (in units of 1e-5) as a decimal with four places, in units
\* of 1e-4, ties to even
Fmt4(v5) ==
    LET a == Abs(v5)
        q == a \div 10
        r == a % 10
        up == r > 5 \/ (r = 5 /\ q % 2 = 1)
    IN  [places |-> 4, units |-> Sgn(v5) * (q + (IF up THEN 1 ELSE 0))]

\* is_stationary = p_value <= 0.05
IsStationaryByPValue(out) == out.pvalue <= 5000

\* perform_adf_test_logic, given what adfuller did
perform_adf_test_logic(series, sym, out) ==
    IF series = None
    THEN ErrorEntry("No valid price data for " \o StockName(sym) \o " to perform ADF test.")
    ELSE IF out.kind = "raise"
    THEN ErrorEntry("Error performing ADF test for " \o StockName(sym))
    ELSE [stockName |-> StockName(sym),
          adfStatistic |-> Fmt4(out.stat),
          pValue |-> Fmt4(out.pvalue),
          criticalValues |-> [k \in DOMAIN AdfullerCrit |-> Fmt4(AdfullerCrit[k])],
          isStationary |-> IsStationaryByPValue(out),
          conclusion |-> IF IsStationaryByPValue(out)
                         THEN "likely stationary"
                         ELSE "likely non-stationary (has a unit root)"]

InitHandler ==
    /\ RollIdle
    /\ call = [fn |-> "none"]
    /\ ret = [kind |-> "pending"]
    /\ endpoint \in {"adf", "adf-test"}
    /\ \/ \E b \in {"missing", "invalid"} :
            event = [body |-> b, tcs_url |-> FALSE, hcl_url |-> FALSE, lags |-> 0,
                     tcs |-> Unreachable, hcltech |-> Unreachable]
       \/ \E t, h \in BOOLEAN :
            /\ ~(t /\ h)
            /\ event = [body |-> "json", tcs_url |-> t, hcl_url |-> h, lags |-> 0,
                        tcs |-> Unreachable, hcltech |-> Unreachable]
       \/ \E ct, ch \in Contents :
            \E l \in (IF endpoint = "adf" THEN HLags ELSE {0}) :
                event = [body |-> "json", tcs_url |-> TRUE, hcl_url |-> TRUE,
                         lags |-> l, tcs |-> ct, hcltech |-> ch]
    /\ hpc = "parse"
    /\ prices = [s \in Symbols |-> None]
    /\ lib = [s \in Symbols |-> [kind |-> "uncalled", stat |-> 0, pvalue |-> 0]]
    /\ results = <<>>
    /\ response = [statusCode |-> 0]

Reply(r) ==
    /\ response' = r
    /\ hpc' = "done"

\* Both handlers: the body, the JSON and the two URLs are checked first
HandlerParse ==
    /\ hpc = "parse"
    /\ IF event.body = "missing"
       THEN Reply(Response(400, ErrorEntry("Request body is missing.")))
       ELSE IF event.body = "invalid"
       THEN Reply(Response(400, ErrorEntry("Invalid JSON in request body.")))
       ELSE IF ~event.tcs_url \/ ~event.hcl_url
       THEN Reply(Response(400, ErrorEntry("Missing TCS or HCLTECH CSV URLs")))
       ELSE /\ hpc' = IF endpoint = "adf" THEN "fetch_tcs" ELSE "fetch"
            /\ UNCHANGED response
    /\ UNCHANGED <<libVars, rollVars, endpoint, event, prices, lib, results>>

\* api/adf.py: tcs_prices = fetch_prices_from_csv_url(tcs_url), and the
\* return that follows when it is None
AdfFetchTcs ==
    /\ endpoint = "adf" /\ hpc = "fetch_tcs"
    /\ LET p == fetch_prices_from_csv_url(event.tcs)
       IN  /\ prices' = [prices EXCEPT !["tcs"] = p]
           /\ IF p = None
              THEN Reply(Response(500, ErrorEntry("Failed to fetch or parse TCS.NS data.")))
              ELSE hpc' = "fetch_hcl" /\ UNCHANGED response
    /\ UNCHANGED <<libVars, rollVars, endpoint, event, lib, results>>

AdfFetchHcl ==
    /\ endpoint = "adf" /\ hpc = "fetch_hcl"
    /\ LET p == fetch_prices_from_csv_url(event.hcltech)
       IN  /\ prices' = [prices EXCEPT !["hcltech"] = p]
           /\ IF p = None
              THEN Reply(Response(500, ErrorEntry("Failed to fetch or parse HCLTECH.NS data.")))
              ELSE hpc' = "test_tcs" /\ UNCHANGED response
    /\ UNCHANGED <<libVars, rollVars, endpoint, event, lib, results>>

AdfTestTcs ==
    /\ endpoint = "adf" /\ hpc = "test_tcs"
    /\ \E e \in {AdfEntry(prices["tcs"], event.lags, "tcs")} :
            results' = ("tcs" :> e)
    /\ hpc' = "test_hcl"
    /\ UNCHANGED <<libVars, rollVars, endpoint, event, prices, lib, response>>

AdfTestHcl ==
    /\ endpoint = "adf" /\ hpc = "test_hcl"
    /\ \E e \in {AdfEntry(prices["hcltech"], event.lags, "hcltech")} :
            results' = results @@ ("hcltech" :> e)
    /\ hpc' = "respond"
    /\ UNCHANGED <<libVars, rollVars, endpoint, event, prices, lib, response>>

\* Both handlers: the 200 response carrying json.dumps(results)
HandlerRespond ==
    /\ hpc = "respond"
    /\ Reply(Response(200, results))
    /\ UNCHANGED <<libVars, rollVars, endpoint, event, prices, lib, results>>

\* api/adf-test.py: both series are fetched before either is tested
LibFetchBoth ==
    /\ endpoint = "adf-test" /\ hpc = "fetch"
    /\ prices' = [s \in Symbols |-> fetch_prices_from_csv_url(event[s])]
    /\ hpc' = "perform_tcs"
    /\ UNCHANGED <<libVars, rollVars, endpoint, event, lib, results, response>>

\* One symbol of api/adf-test.py: perform_adf_test_logic when the prices
\* were fetched, an error entry otherwise
LibSymbolEntry(sym, out) ==
    IF prices[sym] # None
    THEN perform_adf_test_logic(prices[sym], sym, out)
    ELSE ErrorEntry("Failed to fetch or process " \o StockName(sym) \o " data.")

LibPerformTcs ==
    /\ endpoint = "adf-test" /\ hpc = "perform_tcs"
    /\ \E out \in (IF prices["tcs"] # None THEN AdfullerOutcomes ELSE {lib["tcs"]}) :
        /\ lib' = [lib EXCEPT !["tcs"] = out]
        /\ \E e \in {LibSymbolEntry("tcs", out)} : results' = ("tcs" :> e)
    /\ hpc' = "perform_hcl"
    /\ UNCHANGED <<libVars, rollVars, endpoint, event, prices, response>>

LibPerformHcl ==
    /\ endpoint = "adf-test" /\ hpc = "perform_hcl"
    /\ \E out \in (IF prices["hcltech"] # None THEN AdfullerOutcomes ELSE {lib["hcltech"]}) :
        /\ lib' = [lib EXCEPT !["hcltech"] = out]
        /\ \E e \in {LibSymbolEntry("hcltech", out)} :
                results' = results @@ ("hcltech" :> e)
    /\ hpc' = "respond"
    /\ UNCHANGED <<libVars, rollVars, endpoint, event, prices, response>>

NextHandler ==
    \/ HandlerParse
    \/ AdfFetchTcs
    \/ AdfFetchHcl
    \/ AdfTestTcs
    \/ AdfTestHcl
    \/ LibFetchBoth
    \/ LibPerformTcs
    \/ LibPerformHcl
    \/ HandlerRespond

SpecHandler == InitHandler /\ [][NextHandler]_vars

-----------------------------------------------------------------------------
(* Claims on the two-symbol endpoints, checked under SpecHandler *)

\* The request names both CSV URLs, so two symbols are processed
TwoSymbolRequest == event.body = "json" /\ event.tcs_url /\ event.hcl_url

Answered == hpc = "done" /\ TwoSymbolRequest

IsSuccessEntry(e) == "error" \notin DOMAIN e

\* The symbol's own processing succeeds: its CSV yields prices and its test
\* returns a result
SymbolSucceeds(sym) ==
    /\ fetch_prices_from_csv_url(event[sym]) # None
    /\ IF endpoint = "adf"
       THEN adf_test(fetch_prices_from_csv_url(event[sym]), event.lags).kind = "return"
       ELSE lib[sym].kind = "return"

\* t <= c for a t statistic sign * sqrt(sq) and a negative threshold c
TStatLeq(t, c) == t.sign < 0 /\ ~RLess(t.sq, RSq(c))

\* statistic <= criticalValues["5%"] on the entry as returned
StatLeqCrit5(e) ==
    IF "t_stat" \in DOMAIN e
    THEN TStatLeq(e.t_stat, e.critical_values["5%"])
    ELSE e.adfStatistic.units <= e.criticalValues["5%"].units

AdfResultKeys ==
    {"t_stat", "alpha", "beta", "lag_used", "critical_values", "series_length"}

C4_PerSymbolIsolation ==
    Answered
        => /\ response.statusCode = 200
           /\ DOMAIN response.body = Symbols
           /\ \A sym \in Symbols :
                 SymbolSucceeds(sym) => IsSuccessEntry(response.body[sym])

-----------------------------------------------------------------------------
(* api/calculate_adf.py: the rolling pairs pipeline *)

AdfMinLen == 10    \* the ADF call needs len(spread_series) > 10
MaxDate == 3       \* short CSVs hold the dates 1..MaxDate
MaxLong == 12      \* long CSVs hold the dates 1..L, L in 11..MaxLong

\* A date is its day number; its text is the two-digit day field of
\* '%Y-%m-%d' (the year and month fields are the same for every date)
DateText(d) == <<d \div 10, d % 10>>

\* datetime.strptime(row[0], '%Y-%m-%d'): ValueError unless the day is 01..31
strptime(text) ==
    [ok |-> (10 * text[1] + text[2]) \in 1..31, date |-> 10 * text[1] + text[2]]

\* date.strftime('%Y-%m-%d')
strftime(d) == <<d \div 10, d % 10>>

\* Lexicographic order of two date texts
TextLess(a, b) == a[1] < b[1] \/ (a[1] = b[1] /\ a[2] < b[2])

CsvRow(d, price) == [cols |-> 6, date |-> DateText(d), numeric |-> TRUE, close |-> price]

\* `if row:`, strptime(row[0]) and float(row[5]) all succeed
RowParses(r) == r.cols > 0 /\ strptime(r.date).ok /\ r.cols > 5 /\ r.numeric

RECURSIVE InsertByDate(_, _)
\* e put after the last element of the sorted sequence whose date is <= its own
InsertByDate(sorted, e) ==
    IF sorted = <<>> THEN <<e>>
    ELSE IF sorted[Len(sorted)].date <= e.date THEN Append(sorted, e)
    ELSE Append(InsertByDate(SubSeq(sorted, 1, Len(sorted) - 1), e), sorted[Len(sorted)])

RECURSIVE SortByDate(_, _)
\* np.argsort(dates) applied to dates and prices: the first k rows, sorted
SortByDate(rows, k) ==
    IF k = 0 THEN <<>> ELSE InsertByDate(SortByDate(rows, k - 1), rows[k])

\* The rows that parse, as (date, price) pairs
ParsedRows(kept) ==
    [i \in 1..Len(kept) |-> [date |-> strptime(kept[i].date).date, price |-> kept[i].close]]

SortParsed(parsed) == SortByDate(parsed, Len(parsed))

load_close_prices_from_string(csv_content) ==
    SortParsed(ParsedRows(SelectSeq(csv_content, RowParses)))

DateSet(series) == {series[i].date : i \in 1..Len(series)}

\* The prices the rows of date d carry
PricesAt(series, d) ==
    {series[i].price : i \in {j \in 1..Len(series) : series[j].date = d}}

RECURSIVE DictsUpTo(_, _)
\* The dicts the first k (date, price) pairs can make
DictsUpTo(series, k) ==
    IF k = 0 THEN {<<>>}
    ELSE {(series[k].date :> p) @@ f :
            f \in DictsUpTo(series, k - 1), p \in PricesAt(series, series[k].date)}

\* dict(zip(dates, prices)): one price per date; for a date that occurs more
\* than once the entry is the price of whichever row argsort placed last
DictChoices(series) == DictsUpTo(series, Len(series))

RECURSIVE SortedSeq(_), SortedSeqFrom(_, _)
\* sorted(list(S)) for a set of dates
SortedSeq(S) ==
    IF S = {} THEN <<>>
    ELSE SortedSeqFrom(CHOOSE m \in S : \A o \in S : m <= o, S)

SortedSeqFrom(m, S) == <<m>> \o SortedSeq(S \ {m})

\* The dict appended to aligned_data
AlignedRecord(date, tcs_dict, hcltech_dict) ==
    [Date |-> date, Close_TCS |-> tcs_dict[date], Close_HCLTECH |-> hcltech_dict[date]]

RECURSIVE AlignedUpTo(_, _, _, _)
\* The records appended for the first k dates of all_dates: one for each date
\* that is a key of both dicts
AlignedUpTo(all_dates, k, tcs_dict, hcltech_dict) ==
    IF k = 0 THEN <<>>
    ELSE IF all_dates[k] \in DOMAIN tcs_dict /\ all_dates[k] \in DOMAIN hcltech_dict
    THEN Append(AlignedUpTo(all_dates, k - 1, tcs_dict, hcltech_dict),
                AlignedRecord(all_dates[k], tcs_dict, hcltech_dict))
    ELSE AlignedUpTo(all_dates, k - 1, tcs_dict, hcltech_dict)

RECURSIVE InsertAligned(_, _)
InsertAligned(sorted, e) ==
    IF sorted = <<>> THEN <<e>>
    ELSE IF sorted[Len(sorted)].Date <= e.Date THEN Append(sorted, e)
    ELSE Append(InsertAligned(SubSeq(sorted, 1, Len(sorted) - 1), e), sorted[Len(sorted)])

RECURSIVE SortAligned(_, _)
\* aligned_data.sort(key=lambda x: x['Date']): the first k records, sorted
SortAligned(records, k) ==
    IF k = 0 THEN <<>> ELSE InsertAligned(SortAligned(records, k - 1), records[k])

\* AlignedOn taking both prices from the first dict
AlignedOnFirstDict(all_dates, tcs_dict, hcltech_dict) ==
    SortAligned(AlignedUpTo(all_dates, Len(all_dates), tcs_dict, tcs_dict),
                Len(AlignedUpTo(all_dates, Len(all_dates), tcs_dict, tcs_dict)))

\* The loop over all_dates and the sort that follows it
AlignedOn(all_dates, tcs_dict, hcltech_dict) ==
    SortAligned(AlignedUpTo(all_dates, Len(all_dates), tcs_dict, hcltech_dict),
                Len(AlignedUpTo(all_dates, Len(all_dates), tcs_dict, hcltech_dict)))

\* all_dates = sorted(list(set(tcs_dates).intersection(set(hcltech_dates))))
AllDates(tcs, hcltech) == SortedSeq(DateSet(tcs) \cap DateSet(hcltech))

IsFinite(v) == v[2] # 0

\* np.linalg.lstsq([1, x], y) on the rank-deficient design (all x equal to c,
\* or a single row): the minimum-norm solution of alpha + beta * c = mean(y)
LstsqMinNorm(c, ym) ==
    [err |-> FALSE,
     alpha |-> RDiv(ym, RAdd(R(1), RSq(c))),
     beta |-> RDiv(RMul(ym, c), RAdd(R(1), RSq(c)))]

LstsqFullRank(x, y, beta) ==
    [err |-> FALSE, alpha |-> RSub(mean(y), RMul(beta, mean(x))), beta |-> beta]

\* On a design that holds a non-finite value the LAPACK routine either fails
\* to converge (LinAlgError) or hands back NaN coefficients, depending on
\* the build
LstsqNonFinite ==
    {[err |-> TRUE, alpha |-> NaN, beta |-> NaN],
     [err |-> FALSE, alpha |-> NaN, beta |-> NaN]}

\* np.linalg.lstsq(X_ols, y_hcltech, rcond=None): the outcomes of the call
lstsq(x, y) ==
    IF \E i \in 1..Len(x) : ~IsFinite(x[i])
    THEN LstsqNonFinite
    ELSE IF \A i \in 1..Len(x) : x[i] = x[1]
    THEN {LstsqMinNorm(x[1], mean(y))}
    ELSE {LstsqFullRank(x, y, RDiv(SumCrossDev(x, y, mean(x), mean(y)),
                                   SumSqDev(x, mean(x))))}

\* Close_HCLTECH - (alpha + beta * Close_TCS) of one aligned record; NaN
\* coefficients or a NaN price give NaN
SpreadOf(rec, fit) ==
    IF IsFinite(fit.alpha) /\ IsFinite(rec.Close_TCS)
    THEN RSub(rec.Close_HCLTECH, RAdd(fit.alpha, RMul(fit.beta, rec.Close_TCS)))
    ELSE NaN

WindowSpreads(window_data, fit) ==
    [k \in 1..Len(window_data) |-> SpreadOf(window_data[k], fit)]

\* (spread_value - mean) / std as sign * sqrt(sq), std being the population
\* standard deviation sqrt(popvar)
ZScoreOf(dev, popvar) ==
    IF popvar # Zero
    THEN [sign |-> Sgn(dev[1]), sq |-> RDiv(RSq(dev), popvar)]
    ELSE [sign |-> 0, sq |-> NaN]

ZScore(spread_value, spread_series) ==
    IF Len(spread_series) > 1 /\ \A k \in 1..Len(spread_series) : IsFinite(spread_series[k])
    THEN ZScoreOf(RSub(spread_value, mean(spread_series)),
                  RDiv(SumSqDev(spread_series, mean(spread_series)),
                       R(Len(spread_series))))
    ELSE [sign |-> 0, sq |-> NaN]

\* arch's ADF(...).stat is a library call: it raises, and adf_statistic
\* stays np.nan, or it yields a statistic
ArchOutcomes ==
    {[event |-> "raise", stat |-> NaN],
     [event |-> "return", stat |-> Rat(-7, 2)],
     [event |-> "return", stat |-> Rat(-1, 1)]}

\* == on floats: NaN equals nothing
FloatEq(a, b) == a # NaN /\ b # NaN /\ a = b

\* AdfGuard without the all-identical test
AdfGuardLengthOnly(spread_series) == Len(spread_series) > AdfMinLen

\* len(spread_series) > 10 and not np.all(spread_series == spread_series[0])
AdfGuard(spread_series) ==
    /\ Len(spread_series) > AdfMinLen
    /\ ~(\A k \in 1..Len(spread_series) : FloatEq(spread_series[k], spread_series[1]))

\* What the ADF step of one iteration can do: the call is not made and
\* adf_statistic stays np.nan, or it is made
AdfStatistics(spread_series) ==
    IF AdfGuard(spread_series)
    THEN ArchOutcomes
    ELSE {[event |-> "guarded", stat |-> NaN]}

\* The dict appended to results
SignalRecord(rec, fit, spread_value, z_score, adf_statistic) ==
    [Date |-> strftime(rec.Date),
     symbol1close |-> rec.Close_TCS,
     symbol2close |-> rec.Close_HCLTECH,
     Alpha |-> fit.alpha,
     HedgeRatio |-> fit.beta,
     Spread |-> spread_value,
     Zscore |-> z_score,
     ADFTestStatistic |-> adf_statistic]

\* WindowData reaching one record further back where there is one
WindowDataWide(data, i, window) ==
    Slice(data, IF i - window + 1 >= 1 THEN i - window + 1 ELSE 1, i + 1)

\* window_data = aligned_data[i - window + 1 : i + 1] (i is 0-based)
WindowData(data, i, window) == Slice(data, i - window + 2, i + 1)

Column(window_data, name) == [k \in 1..Len(window_data) |-> window_data[k][name]]

\* LastStatistic keeping the previous value when the new one is NaN
LastStatisticKeep(previous, adf_statistic) ==
    IF adf_statistic = NaN THEN previous ELSE adf_statistic

\* last_adf_statistic = adf_statistic
LastStatistic(previous, adf_statistic) == adf_statistic

\* WindowShort treating a sequence exactly as long as the window as too short
WindowShortOffByOne(data, window) == Len(data) <= window

\* len(aligned_data) < window
WindowShort(data, window) == Len(data) < window

(* Inputs of the rolling pipeline *)

Dates == 1..MaxDate

Windows == (1..MaxDate) \cup ((AdfMinLen + 1)..MaxLong)

\* Price codes of a short CSV: 0 no row for the date, 1 and 2 the price,
\* 3 the text "nan" (float("nan") parses)
PriceOfCode(c) == IF c = 3 THEN NaN ELSE R(c)

RECURSIVE RowsAscending(_, _)
RowsAscending(f, k) ==
    IF k = 0 THEN <<>>
    ELSE IF f[k] = 0 THEN RowsAscending(f, k - 1)
    ELSE Append(RowsAscending(f, k - 1), CsvRow(k, PriceOfCode(f[k])))

Reverse(rows) == [i \in 1..Len(rows) |-> rows[Len(rows) + 1 - i]]

\* An empty row, a row with three columns, a row whose date does not parse
\* and a row whose close is not a number
JunkRows ==
    << [cols |-> 0, date |-> DateText(1), numeric |-> FALSE, close |-> Zero],
       [cols |-> 3, date |-> DateText(1), numeric |-> FALSE, close |-> Zero],
       [cols |-> 6, date |-> <<0, 0>>, numeric |-> TRUE, close |-> R(1)],
       [cols |-> 6, date |-> DateText(2), numeric |-> FALSE, close |-> Zero] >>

\* The rows in descending order with junk in front
Messy(rows) == JunkRows \o Reverse(rows)

\* The rows with the first date repeated at another price
Repeated(rows) ==
    rows \o (IF rows = <<>> THEN <<>> ELSE << [rows[1] EXCEPT !.close = R(3)] >>)

Variants == {"messy", "repeated"}

Variant(rows, v) ==
    CASE v = "messy" -> Messy(rows)
      [] v = "repeated" -> Repeated(rows)

\* The second CSV always has a row for the first date
HclCodes == {f \in [Dates -> 0..2] : f[1] # 0}

LongShapesTcs == {"ramp", "flat", "saw"}
LongShapesHcl == {"ramp", "kink", "alt"}

LongCsv(shape, len) == [d \in 1..len |-> CsvRow(d, Series(shape, len)[d])]

InitRoll ==
    /\ HandlerIdle
    /\ call = [fn |-> "none"]
    /\ ret = [kind |-> "pending"]
    /\ \/ \E w \in Dates, fa \in [Dates -> 0..3], fb \in HclCodes, v \in Variants :
            post = [tcs_csv_content |-> Variant(RowsAscending(fa, MaxDate), v),
                    hcltech_csv_content |-> RowsAscending(fb, MaxDate),
                    window |-> w]
       \/ \E w \in Windows, len \in (AdfMinLen + 1)..MaxLong :
            \E sa \in LongShapesTcs, sb \in LongShapesHcl :
                post = [tcs_csv_content |-> LongCsv(sa, len),
                        hcltech_csv_content |-> LongCsv(sb, len),
                        window |-> w]
    /\ rpc = "post"
    /\ loaded = <<>>
    /\ aligned_data = <<>>
    /\ ridx = 0
    /\ roll_results = <<>>
    /\ last_adf_statistic = None
    /\ roll_ret = [kind |-> "pending"]
    /\ events = <<>>
    /\ post_response = [statusCode |-> 0]

\* do_POST up to the call: 400 when either CSV content is missing or empty
PostParse ==
    /\ rpc = "post"
    /\ IF post.tcs_csv_content = <<>> \/ post.hcltech_csv_content = <<>>
       THEN /\ post_response' = Response(400, ErrorEntry("Missing CSV content in request"))
            /\ rpc' = "done"
       ELSE /\ rpc' = "load"
            /\ UNCHANGED post_response
    /\ UNCHANGED <<libVars, handlerVars, post, loaded, aligned_data, ridx,
                   roll_results, last_adf_statistic, roll_ret, events>>

\* The two load_close_prices_from_string calls
RollLoad ==
    /\ rpc = "load"
    /\ loaded' = [tcs |-> load_close_prices_from_string(post.tcs_csv_content),
                  hcltech |-> load_close_prices_from_string(post.hcltech_csv_content)]
    /\ rpc' = "align"
    /\ UNCHANGED <<libVars, handlerVars, post, aligned_data, ridx,
                   roll_results, last_adf_statistic, roll_ret, events, post_response>>

\* The Series Aligner: the dicts, the sorted common dates, the aligned
\* records and the closing sort
RollAlign ==
    /\ rpc = "align"
    /\ \E tcs_dict \in DictChoices(loaded.tcs), hcltech_dict \in DictChoices(loaded.hcltech) :
        aligned_data' = AlignedOn(AllDates(loaded.tcs, loaded.hcltech),
                                  tcs_dict, hcltech_dict)
    /\ rpc' = "check"
    /\ UNCHANGED <<libVars, handlerVars, post, loaded, ridx,
                   roll_results, last_adf_statistic, roll_ret, events, post_response>>

\* The length test, and the initialisation of the loop when it passes
RollCheckWindow ==
    /\ rpc = "check"
    /\ IF WindowShort(aligned_data, post.window)
       THEN /\ roll_ret' = [kind |-> "error",
                            error |-> [points |-> Len(aligned_data),
                                       window |-> post.window]]
            /\ rpc' = "respond"
            /\ UNCHANGED <<ridx, roll_results, last_adf_statistic>>
       ELSE /\ roll_results' = <<>>
            /\ last_adf_statistic' = None
            /\ ridx' = post.window - 1
            /\ rpc' = "loop"
            /\ UNCHANGED roll_ret
    /\ UNCHANGED <<libVars, handlerVars, post, loaded, aligned_data, events, post_response>>

\* One iteration of the loop once the fit succeeded
RollEmit(rec, fit, spread_series) ==
    \E adf \in AdfStatistics(spread_series) :
        /\ last_adf_statistic' = LastStatistic(last_adf_statistic, adf.stat)
        /\ events' = Append(events, adf.event)
        /\ roll_results' =
              Append(roll_results,
                     SignalRecord(rec, fit, SpreadOf(rec, fit),
                                  ZScore(SpreadOf(rec, fit), spread_series),
                                  adf.stat))

\* One iteration of the loop: the fit, and `continue` on LinAlgError
RollFit(window_data, fit) ==
    IF fit.err
    THEN /\ events' = Append(events, "skip")
         /\ UNCHANGED <<roll_results, last_adf_statistic>>
    ELSE RollEmit(aligned_data[ridx + 1], fit, WindowSpreads(window_data, fit))

RollWindow ==
    /\ rpc = "loop"
    /\ ridx < Len(aligned_data)
    /\ \E window_data \in {WindowData(aligned_data, ridx, post.window)} :
        \E fit \in lstsq(Column(window_data, "Close_TCS"),
                         Column(window_data, "Close_HCLTECH")) :
            RollFit(window_data, fit)
    /\ ridx' = ridx + 1
    /\ UNCHANGED <<libVars, handlerVars, post, rpc, loaded, aligned_data,
                   roll_ret, post_response>>

\* The return after the loop
RollReturn ==
    /\ rpc = "loop"
    /\ ridx >= Len(aligned_data)
    /\ roll_ret' = [kind |-> "results", results |-> roll_results,
                    last_adf_statistic |-> last_adf_statistic]
    /\ rpc' = "respond"
    /\ UNCHANGED <<libVars, handlerVars, post, loaded, aligned_data, ridx,
                   roll_results, last_adf_statistic, events, post_response>>

\* do_POST after the call: the second element of the returned pair is always
\* None, so the 200 branch sends response_data, the error dict included
PostRespond ==
    /\ rpc = "respond"
    /\ post_response' =
          Response(200, IF roll_ret.kind = "error"
                        THEN [error |-> roll_ret.error]
                        ELSE [results |-> roll_ret.results,
                              last_adf_statistic |-> roll_ret.last_adf_statistic])
    /\ rpc' = "done"
    /\ UNCHANGED <<libVars, handlerVars, post, loaded, aligned_data, ridx,
                   roll_results, last_adf_statistic, roll_ret, events>>

NextRoll ==
    \/ PostParse
    \/ RollLoad
    \/ RollAlign
    \/ RollCheckWindow
    \/ RollWindow
    \/ RollReturn
    \/ PostRespond

SpecRoll == InitRoll /\ [][NextRoll]_vars

-----------------------------------------------------------------------------
(* Claims on the rolling pipeline, checked under SpecRoll *)

\* run_ols_and_adf_arch_api returned the results payload
RollReturned == rpc \in {"respond", "done"} /\ roll_ret.kind = "results"

\* The number of iterations that took the `continue`
Skips == Cardinality({k \in 1..Len(events) : events[k] = "skip"})

IsEmission(e) == e # "skip"

\* What the ADF step did in the iterations that emitted a record, in order
Emissions == SelectSeq(events, IsEmission)

StrictlyAscendingByDateText(records) ==
    \A j, k \in 1..Len(records) : j < k => TextLess(records[j].Date, records[k].Date)

\* The record was computed from the window_size aligned records that end at
\* position last (1-based) and carries the date and prices of that position
ComputedFromWindowEndingAt(rec, last, window_size) ==
    /\ rec.Date = DateText(aligned_data[last].Date)
    /\ rec.symbol1close = aligned_data[last].Close_TCS
    /\ rec.symbol2close = aligned_data[last].Close_HCLTECH
    /\ \E fit \in lstsq(Column(SubSeq(aligned_data, last - window_size + 1, last), "Close_TCS"),
                        Column(SubSeq(aligned_data, last - window_size + 1, last), "Close_HCLTECH")) :
          /\ ~fit.err
          /\ rec.Alpha = fit.alpha
          /\ rec.HedgeRatio = fit.beta
          /\ rec.Spread = SpreadOf(aligned_data[last], fit)

\* C5: given an aligned sequence of length L and a window W with 2 <= W <= L,
\* and no singular-fit skip, the pipeline returns exactly L - W + 1 records;
\* the k-th record (k = 0..L-W) is computed from the W aligned records ending
\* at index W-1+k and carries the date and prices of that end index, so the
\* records are strictly ascending by date.
C5_OneRecordPerWindow ==
    (RollReturned /\ post.window >= 2 /\ Skips = 0) =>
        /\ Len(roll_ret.results) = Len(aligned_data) - post.window + 1
        /\ \A k \in 0..(Len(aligned_data) - post.window) :
              ComputedFromWindowEndingAt(roll_ret.results[k + 1], post.window + k, post.window)
        /\ StrictlyAscendingByDateText(roll_ret.results)

\* A run of several windows of three records each without a skip
C5_Witness ==
    /\ RollReturned
    /\ post.window = 3
    /\ Skips = 0
    /\ Len(aligned_data) = MaxLong
    /\ Len(roll_ret.results) = MaxLong - 2
    /\ roll_ret.results[1].HedgeRatio # roll_ret.results[2].HedgeRatio

\* The positions of the records whose ADF statistic is a number
Computable(records) ==
    {k \in 1..Len(records) : records[k].ADFTestStatistic # NaN}

LastOf(S) == CHOOSE m \in S : \A o \in S : o <= m

\* C6 as stated: the summary statistic equals the ADF statistic of the last
\* window in which it was computable; a later window whose statistic is
\* undefined does not overwrite it, and it is undefined only when no window
\* had a computable statistic.
C6_LastComputableStatistic ==
    RollReturned =>
        IF Computable(roll_ret.results) = {}
        THEN roll_ret.last_adf_statistic \in {None, NaN}
        ELSE roll_ret.last_adf_statistic =
                roll_ret.results[LastOf(Computable(roll_ret.results))].ADFTestStatistic

\* C6 as amended: the summary statistic equals the ADF statistic of the last
\* emitted record, undefined (NaN) included, so a later window whose statistic
\* is undefined overwrites an earlier number; it is None only when no record
\* was emitted.
C6_LastEmittedStatistic ==
    /\ rpc = "loop" =>
          last_adf_statistic =
             IF roll_results = <<>> THEN None
             ELSE roll_results[Len(roll_results)].ADFTestStatistic
    /\ RollReturned =>
          roll_ret.last_adf_statistic =
             IF roll_ret.results = <<>> THEN None
             ELSE roll_ret.results[Len(roll_ret.results)].ADFTestStatistic

\* A number in an earlier window, NaN in the last, and NaN returned
C6_Witness ==
    /\ RollReturned
    /\ Len(roll_ret.results) >= 2
    /\ roll_ret.results[1].ADFTestStatistic # NaN
    /\ roll_ret.results[Len(roll_ret.results)].ADFTestStatistic = NaN
    /\ roll_ret.last_adf_statistic = NaN

\* The position in aligned_data of the record a signal record was made for
PositionOf(rec) ==
    CHOOSE i \in 1..Len(aligned_data) : DateText(aligned_data[i].Date) = rec.Date

\* The spreads of the window ending at position last under the coefficients
\* the record carries
SpreadsUnder(rec, last) ==
    [j \in 1..post.window |->
        SpreadOf(aligned_data[last - post.window + j],
                 [alpha |-> rec.Alpha, beta |-> rec.HedgeRatio])]

AllIdenticalNumbers(values) ==
    \A j \in 1..Len(values) : IsFinite(values[j]) /\ values[j] = values[1]

IdenticalSpreads(rec) == AllIdenticalNumbers(SpreadsUnder(rec, PositionOf(rec)))

\* C7: a window whose spread values are all identical yields a record with
\* the z-score NaN and the ADF statistic NaN (not zero) and the record is
\* emitted; an ADF call that raises yields NaN for that record, and neither
\* stops the loop: every window that is not skipped has its record.
C7_DegenerateWindowsYieldNaN ==
    /\ \A k \in 1..Len(roll_results) :
          IdenticalSpreads(roll_results[k]) =>
              /\ roll_results[k].Zscore.sq = NaN
              /\ roll_results[k].ADFTestStatistic = NaN
    /\ Len(Emissions) = Len(roll_results)
    /\ \A k \in 1..Len(Emissions) :
          Emissions[k] = "raise" => roll_results[k].ADFTestStatistic = NaN
    /\ rpc = "loop" => Len(events) = ridx - post.window + 1
    /\ RollReturned =>
          /\ Len(events) = Len(aligned_data) - post.window + 1
          /\ roll_ret.results = roll_results
    /\ (rpc = "done" /\ roll_ret.kind = "results") => post_response.statusCode = 200

\* An ADF call that raised in the first window and a second window of more
\* than ten identical spreads, both with their records
C7_Witness ==
    /\ RollReturned
    /\ post.window > AdfMinLen
    /\ Len(roll_ret.results) = 2
    /\ events = <<"raise", "guarded">>
    /\ IdenticalSpreads(roll_ret.results[2])
    /\ roll_ret.results[2].Zscore.sq = NaN
    /\ roll_ret.results[2].ADFTestStatistic = NaN

\* run_ols_and_adf_arch_api has returned
RollDone == rpc \in {"respond", "done"} /\ roll_ret.kind # "pending"

\* C8: with fewer aligned records than the window the pipeline returns an
\* error object and no results, and no window is processed; with at least
\* that many it returns the results payload and no error.
C8_ErrorIffFewerThanWindow ==
    /\ RollDone =>
          IF Len(aligned_data) < post.window
          THEN /\ roll_ret.kind = "error"
               /\ DOMAIN roll_ret = {"kind", "error"}
               /\ events = <<>>
               /\ roll_results = <<>>
          ELSE /\ roll_ret.kind = "results"
               /\ DOMAIN roll_ret = {"kind", "results", "last_adf_statistic"}
    /\ (rpc = "done" /\ roll_ret.kind # "pending") =>
          DOMAIN post_response.body =
             IF Len(aligned_data) < post.window
             THEN {"error"} ELSE {"results", "last_adf_statistic"}

\* One aligned record short of the window
C8_Witness ==
    /\ rpc = "done"
    /\ roll_ret.kind = "error"
    /\ Len(aligned_data) >= 1
    /\ Len(aligned_data) = post.window - 1
    /\ DOMAIN post_response.body = {"error"}

NoDuplicateDates(series) ==
    \A i, j \in 1..Len(series) : i # j => series[i].date # series[j].date

PriceOn(series, d) ==
    series[CHOOSE i \in 1..Len(series) : series[i].date = d].price

ShorterLen(a, b) == IF Len(a) < Len(b) THEN Len(a) ELSE Len(b)

\* The aligner has run
Aligned == rpc \in {"check", "loop", "respond"} \/ RollDone

\* C9: for two series with no duplicate dates the aligner returns exactly one
\* record per date present in both series and none for any other date, in
\* strictly ascending date order, each with that date's price from each
\* series, and at most min(len(A), len(B)) records.
C9_AlignedIsTheIntersection ==
    (Aligned /\ NoDuplicateDates(loaded.tcs) /\ NoDuplicateDates(loaded.hcltech)) =>
        /\ {aligned_data[k].Date : k \in 1..Len(aligned_data)} =
              DateSet(loaded.tcs) \cap DateSet(loaded.hcltech)
        /\ \A j, k \in 1..Len(aligned_data) :
              j < k => aligned_data[j].Date < aligned_data[k].Date
        /\ \A k \in 1..Len(aligned_data) :
              /\ aligned_data[k].Close_TCS = PriceOn(loaded.tcs, aligned_data[k].Date)
              /\ aligned_data[k].Close_HCLTECH = PriceOn(loaded.hcltech, aligned_data[k].Date)
        /\ Len(aligned_data) <= ShorterLen(loaded.tcs, loaded.hcltech)

\* Common dates and a date only the first series has, the first CSV given in
\* descending order behind malformed rows
C9_Witness ==
    /\ Aligned
    /\ NoDuplicateDates(loaded.tcs)
    /\ NoDuplicateDates(loaded.hcltech)
    /\ post.tcs_csv_content[Len(post.tcs_csv_content)].date = DateText(1)
    /\ Len(loaded.tcs) = MaxDate
    /\ Len(loaded.hcltech) = MaxDate - 1
    /\ Len(aligned_data) = MaxDate - 1
    /\ aligned_data[1].Close_TCS # aligned_data[1].Close_HCLTECH

=============================================================================
